---- MODULE Spec2Model ----
(***************************************************************************)
(* Model of the tokenizer of projectplaid/compiler (src/lexer/mod.rs).     *)
(* The state is one LexerInstance: the source characters, the cursor of    *)
(* the peekable iterator, and the line and column counters.  The only      *)
(* public operation is next_token; its private helpers (get_char,          *)
(* skip_whitespace, handle_string, handle_alpha, handle_number,            *)
(* handle_comment) are operators evaluated inside the one action.          *)
(* Characters are one-character strings; a text is a sequence of them.     *)
(***************************************************************************)
EXTENDS Integers, Sequences, FiniteSets, TLC

VARIABLES
    src,      \* the characters collected by LexerInstance::new
    pos,      \* number of characters the iterator has yielded so far
    line,     \* LexerInstance.line
    column,   \* LexerInstance.column
    result,   \* what the last next_token call returned
    start,    \* cursor position at which the last call began
    out,      \* the results the caller has received so far, in order
    calls     \* number of next_token calls made

vars == <<src, pos, line, column, result, start, out, calls>>

----------------------------------------------------------------------------
(* Bounds of the model *)

MaxLen == 4        \* longest text over the full alphabet
MaxStrLen == 6     \* longest text over the string-literal alphabet
MaxIdLen == 4      \* longest text over the identifier alphabet
MaxPunctLen == 2   \* longest text over the punctuation alphabet
MaxLits == 3       \* most 'x'. units in a literal-sequence text
ExtraCalls == 2    \* calls allowed beyond one per source character

----------------------------------------------------------------------------
(* Character classes, as the match arms of the lexer spell them *)

Quote == "'"
DQuote == "\""
CR == "\r"
LF == "\n"
TAB == "\t"
SP == " "

Whitespace == {TAB, CR, LF, SP}
Letters == {"a", "B"}
Digits == {"1"}
IdentChars == Letters \cup Digits \cup {"_"}

Alphabet == {"a", "1", "_", ":", ".", Quote, DQuote, SP, TAB, CR, LF, "+"}
StrAlphabet == {Quote, "a", CR, LF, "."}
IdAlphabet == {"a", "B", "1", "_", ":", ".", SP, LF}
PunctAlphabet == {"(", ")", "[", "]", "{", "}", ";", "#", "<", ">", "$", "!", ".", SP}

Symbol == {"Identifier", "Keyword", "Number", "LParen", "RParen", "LBracket",
           "RBracket", "Period", "Semicolon", "Hash", "LT", "GT",
           "StringLiteral", "Comment", "LBrace", "RBrace", "DollarSign",
           "Bang", "EndOfFile"}

----------------------------------------------------------------------------
(* Values crossing the tokenizer boundary *)

generate_token(symbol, value) ==
    [kind |-> "ok", symbol |-> symbol, value |-> value, message |-> <<>>]

LexerError(text, arg) ==
    [kind |-> "err", symbol |-> "none", value |-> <<>>,
     message |-> <<text>> \o arg]

NoResult == [kind |-> "none", symbol |-> "none", value |-> <<>>, message |-> <<>>]

----------------------------------------------------------------------------
(* The cursor: c is a record [pos, line, column] *)

HasNext(c) == c.pos < Len(src)

Peek(c) == src[c.pos + 1]

\* get_char counting a carriage-return as a column, like any other character.
get_char_counts_cr(c) ==
    IF HasNext(c)
    THEN IF Peek(c) = LF
         THEN [pos |-> c.pos + 1, line |-> c.line + 1, column |-> 1]
         ELSE [c EXCEPT !.pos = @ + 1, !.column = @ + 1]
    ELSE c

get_char(c) ==
    IF HasNext(c)
    THEN IF Peek(c) = LF
         THEN [pos |-> c.pos + 1, line |-> c.line + 1, column |-> 1]
         ELSE IF Peek(c) = CR
              THEN [c EXCEPT !.pos = @ + 1]
              ELSE [c EXCEPT !.pos = @ + 1, !.column = @ + 1]
    ELSE c

\* skip_whitespace written with "if let" instead of "while let".
skip_whitespace_once(c) ==
    IF HasNext(c) /\ Peek(c) \in Whitespace
    THEN get_char(c)
    ELSE c

\* skip_whitespace without the carriage-return arm.
RECURSIVE skip_whitespace_no_cr(_)
skip_whitespace_no_cr(c) ==
    IF HasNext(c) /\ Peek(c) \in {TAB, LF, SP}
    THEN skip_whitespace_no_cr(get_char(c))
    ELSE c

RECURSIVE skip_whitespace(_)
skip_whitespace(c) ==
    IF HasNext(c) /\ Peek(c) \in Whitespace
    THEN skip_whitespace(get_char(c))
    ELSE c

----------------------------------------------------------------------------
(* Sub-scanners: each returns [cur |-> cursor after, res |-> result] *)

\* handle_number consuming the digit it was dispatched on.
handle_number_consume(c) ==
    [cur |-> get_char(c), res |-> generate_token("EndOfFile", <<>>)]

handle_number(c) ==
    [cur |-> c, res |-> generate_token("EndOfFile", <<>>)]

handle_comment(c) ==
    [cur |-> c, res |-> generate_token("EndOfFile", <<>>)]

\* string_loop pushing carriage-returns into the value.
RECURSIVE string_loop_keeps_cr(_, _)
string_loop_keeps_cr(c, value) ==
    IF ~HasNext(c)
    THEN [cur |-> c, res |-> LexerError("unterminated string constant: ", value)]
    ELSE IF Peek(c) = Quote
         THEN LET c1 == get_char(c) IN
              IF HasNext(c1) /\ Peek(c1) = Quote
              THEN string_loop_keeps_cr(get_char(c1), Append(value, Quote))
              ELSE [cur |-> c1, res |-> generate_token("StringLiteral", value)]
         ELSE string_loop_keeps_cr(get_char(c), Append(value, Peek(c)))

\* string_loop returning the accumulated literal when the input runs out.
RECURSIVE string_loop_eof_ok(_, _)
string_loop_eof_ok(c, value) ==
    IF ~HasNext(c)
    THEN [cur |-> c, res |-> generate_token("StringLiteral", value)]
    ELSE IF Peek(c) = Quote
         THEN LET c1 == get_char(c) IN
              IF HasNext(c1) /\ Peek(c1) = Quote
              THEN string_loop_eof_ok(get_char(c1), Append(value, Quote))
              ELSE [cur |-> c1, res |-> generate_token("StringLiteral", value)]
         ELSE string_loop_eof_ok(get_char(c),
                                 IF Peek(c) # CR THEN Append(value, Peek(c)) ELSE value)

\* string_loop consuming the character it peeked after the closing quote.
RECURSIVE string_loop_swallow(_, _)
string_loop_swallow(c, value) ==
    IF ~HasNext(c)
    THEN [cur |-> c, res |-> LexerError("unterminated string constant: ", value)]
    ELSE IF Peek(c) = Quote
         THEN LET c1 == get_char(c) IN
              IF HasNext(c1) /\ Peek(c1) = Quote
              THEN string_loop_swallow(get_char(c1), Append(value, Quote))
              ELSE [cur |-> get_char(c1), res |-> generate_token("StringLiteral", value)]
         ELSE string_loop_swallow(get_char(c),
                                  IF Peek(c) # CR THEN Append(value, Peek(c)) ELSE value)

RECURSIVE string_loop(_, _)
string_loop(c, value) ==
    IF ~HasNext(c)
    THEN [cur |-> c, res |-> LexerError("unterminated string constant: ", value)]
    ELSE IF Peek(c) = Quote
         THEN LET c1 == get_char(c) IN
              IF HasNext(c1) /\ Peek(c1) = Quote
              THEN string_loop(get_char(c1), Append(value, Quote))
              ELSE [cur |-> c1, res |-> generate_token("StringLiteral", value)]
         ELSE string_loop(get_char(c),
                          IF Peek(c) # CR THEN Append(value, Peek(c)) ELSE value)

handle_string(c) == string_loop(get_char(c), <<>>)

\* alpha_loop pushing the ':' into the keyword's value.
RECURSIVE alpha_loop_keeps_colon(_, _)
alpha_loop_keeps_colon(c, value) ==
    IF ~HasNext(c)
    THEN [cur |-> c, res |-> generate_token("EndOfFile", value)]
    ELSE IF Peek(c) \in Whitespace
         THEN [cur |-> c, res |-> generate_token("Identifier", value)]
         ELSE IF Peek(c) \in IdentChars
              THEN alpha_loop_keeps_colon(get_char(c), Append(value, Peek(c)))
              ELSE IF Peek(c) = ":"
                   THEN [cur |-> get_char(c),
                         res |-> generate_token("Keyword", Append(value, ":"))]
                   ELSE [cur |-> c, res |-> LexerError("unexpected char ", <<Peek(c)>>)]

\* alpha_loop returning the identifier when it meets an unexpected character.
RECURSIVE alpha_loop_lenient(_, _)
alpha_loop_lenient(c, value) ==
    IF ~HasNext(c)
    THEN [cur |-> c, res |-> generate_token("EndOfFile", value)]
    ELSE IF Peek(c) \in Whitespace
         THEN [cur |-> c, res |-> generate_token("Identifier", value)]
         ELSE IF Peek(c) \in IdentChars
              THEN alpha_loop_lenient(get_char(c), Append(value, Peek(c)))
              ELSE IF Peek(c) = ":"
                   THEN [cur |-> get_char(c), res |-> generate_token("Keyword", value)]
                   ELSE [cur |-> c, res |-> generate_token("Identifier", value)]

\* alpha_loop consuming the whitespace character that ends the identifier.
RECURSIVE alpha_loop_eats_space(_, _)
alpha_loop_eats_space(c, value) ==
    IF ~HasNext(c)
    THEN [cur |-> c, res |-> generate_token("EndOfFile", value)]
    ELSE IF Peek(c) \in Whitespace
         THEN [cur |-> get_char(c), res |-> generate_token("Identifier", value)]
         ELSE IF Peek(c) \in IdentChars
              THEN alpha_loop_eats_space(get_char(c), Append(value, Peek(c)))
              ELSE IF Peek(c) = ":"
                   THEN [cur |-> get_char(c), res |-> generate_token("Keyword", value)]
                   ELSE [cur |-> c, res |-> LexerError("unexpected char ", <<Peek(c)>>)]

RECURSIVE alpha_loop(_, _)
alpha_loop(c, value) ==
    IF ~HasNext(c)
    THEN [cur |-> c, res |-> generate_token("EndOfFile", value)]
    ELSE IF Peek(c) \in Whitespace
         THEN [cur |-> c, res |-> generate_token("Identifier", value)]
         ELSE IF Peek(c) \in IdentChars
              THEN alpha_loop(get_char(c), Append(value, Peek(c)))
              ELSE IF Peek(c) = ":"
                   THEN [cur |-> get_char(c), res |-> generate_token("Keyword", value)]
                   ELSE [cur |-> c, res |-> LexerError("unexpected char ", <<Peek(c)>>)]

handle_alpha(c) == alpha_loop(get_char(c), <<Peek(c)>>)

\* dispatch returning Period without consuming the '.'.
dispatch_period_unconsumed(c) ==
    IF HasNext(c)
    THEN IF Peek(c) \in Digits THEN handle_number(c)
         ELSE IF Peek(c) \in Letters THEN handle_alpha(c)
         ELSE IF Peek(c) = "."
              THEN [cur |-> c, res |-> generate_token("Period", <<".">>)]
         ELSE IF Peek(c) = Quote THEN handle_string(c)
         ELSE IF Peek(c) = DQuote THEN handle_comment(c)
         ELSE [cur |-> get_char(c),
               res |-> LexerError("unexpected character ", <<Peek(c)>>)]
    ELSE [cur |-> c, res |-> generate_token("EndOfFile", <<>>)]

\* dispatch failing on an unexpected character without consuming it.
dispatch_error_unconsumed(c) ==
    IF HasNext(c)
    THEN IF Peek(c) \in Digits THEN handle_number(c)
         ELSE IF Peek(c) \in Letters THEN handle_alpha(c)
         ELSE IF Peek(c) = "."
              THEN [cur |-> get_char(c), res |-> generate_token("Period", <<".">>)]
         ELSE IF Peek(c) = Quote THEN handle_string(c)
         ELSE IF Peek(c) = DQuote THEN handle_comment(c)
         ELSE [cur |-> c,
               res |-> LexerError("unexpected character ", <<Peek(c)>>)]
    ELSE [cur |-> c, res |-> generate_token("EndOfFile", <<>>)]

dispatch(c) ==
    IF HasNext(c)
    THEN IF Peek(c) \in Digits THEN handle_number(c)
         ELSE IF Peek(c) \in Letters THEN handle_alpha(c)
         ELSE IF Peek(c) = "." 
              THEN [cur |-> get_char(c), res |-> generate_token("Period", <<".">>)]
         ELSE IF Peek(c) = Quote THEN handle_string(c)
         ELSE IF Peek(c) = DQuote THEN handle_comment(c)
         ELSE [cur |-> get_char(c),
               res |-> LexerError("unexpected character ", <<Peek(c)>>)]
    ELSE [cur |-> c, res |-> generate_token("EndOfFile", <<>>)]

next_token(c) == dispatch(skip_whitespace(c))

----------------------------------------------------------------------------
(* Source texts *)

SeqsUpTo(S, n) == UNION {[1..k -> S] : k \in 0..n}

RECURSIVE Concat(_)
Concat(ss) == IF ss = <<>> THEN <<>> ELSE Head(ss) \o Concat(Tail(ss))

LitBodies == {<<"a">>, <<"B">>, <<>>, <<Quote, Quote>>, <<"a", LF>>}
LitUnit(b) == <<Quote>> \o b \o <<Quote, ".">>
LitTexts == {Concat([i \in 1..Len(bs) |-> LitUnit(bs[i])]) : bs \in SeqsUpTo(LitBodies, MaxLits)}

----------------------------------------------------------------------------
(* The state machine *)

InitOn(texts) ==
    /\ src \in texts
    /\ pos = 0
    /\ line = 1
    /\ column = 1
    /\ result = NoResult
    /\ start = 0
    /\ out = <<>>
    /\ calls = 0

Init == InitOn(SeqsUpTo(Alphabet, MaxLen))
InitStr == InitOn(SeqsUpTo(StrAlphabet, MaxStrLen))
InitId == InitOn(SeqsUpTo(IdAlphabet, MaxIdLen))
InitLits == InitOn(LitTexts)
InitPunct == InitOn(SeqsUpTo(PunctAlphabet, MaxPunctLen))

NextToken ==
    /\ calls < Len(src) + ExtraCalls
    /\ LET r == next_token([pos |-> pos, line |-> line, column |-> column]) IN
         /\ pos' = r.cur.pos
         /\ line' = r.cur.line
         /\ column' = r.cur.column
         /\ result' = r.res
         /\ out' = Append(out, r.res)
    /\ start' = pos
    /\ calls' = calls + 1
    /\ UNCHANGED src

Next == NextToken

Spec == Init /\ [][Next]_vars
SpecStr == InitStr /\ [][Next]_vars
SpecId == InitId /\ [][Next]_vars
SpecPunct == InitPunct /\ [][Next]_vars
SpecLits == InitLits /\ [][Next]_vars

----------------------------------------------------------------------------
TypeOK ==
    /\ pos \in 0..Len(src)
    /\ line \in 1..(Len(src) + 1)
    /\ column \in 1..(Len(src) + 1)
    /\ result.kind \in {"none", "ok", "err"}
    /\ result.kind = "ok" => result.symbol \in Symbol
    /\ start <= pos
    /\ Len(out) = calls

----------------------------------------------------------------------------
(* Vocabulary of the properties, stated on the text itself rather than on  *)
(* the scanner's loops.                                                    *)

Range(s) == {s[i] : i \in 1..Len(s)}

Called == calls >= 1

ReturnedToken(sym) == result.kind = "ok" /\ result.symbol = sym

\* Number of characters before the first non-whitespace character at or
\* after the place where the last call began (Len(src) when there is none).
TokenStart ==
    LET nonws == {i \in (start + 1)..Len(src) : src[i] \notin Whitespace} IN
    IF nonws = {} THEN Len(src)
    ELSE (CHOOSE i \in nonws : \A j \in nonws : i <= j) - 1

AtTokenStart(class) == TokenStart < Len(src) /\ src[TokenStart + 1] \in class

\* Index of the last character of the maximal run of characters of class
\* that begins right after position t.
RunEnd(t, class) ==
    LET ends == {e \in t..Len(src) : \A i \in (t + 1)..e : src[i] \in class} IN
    CHOOSE e \in ends : \A f \in ends : f <= e

\* Every ' of b is one half of a doubled ''.
RECURSIVE EscapedBody(_)
EscapedBody(b) ==
    IF b = <<>> THEN TRUE
    ELSE IF Head(b) = Quote
         THEN Len(b) >= 2 /\ b[2] = Quote /\ EscapedBody(SubSeq(b, 3, Len(b)))
         ELSE EscapedBody(Tail(b))

\* The value the language gives to an escaped body.
RECURSIVE Unescape(_)
Unescape(b) ==
    IF b = <<>> THEN <<>>
    ELSE IF Head(b) = Quote THEN <<Quote>> \o Unescape(SubSeq(b, 3, Len(b)))
    ELSE IF Head(b) = CR THEN Unescape(Tail(b))
    ELSE <<Head(b)>> \o Unescape(Tail(b))

\* k is the index of the quote closing the literal opened at index t + 1.
ClosesAt(t, k) ==
    /\ t + 1 < k /\ k <= Len(src)
    /\ src[t + 1] = Quote
    /\ src[k] = Quote
    /\ EscapedBody(SubSeq(src, t + 2, k - 1))
    /\ (k < Len(src) => src[k + 1] # Quote)

----------------------------------------------------------------------------
\* C1: a call that begins at a well-formed string literal (opening ', body
\* with every ' doubled, closing ' not followed by another ') returns one
\* StringLiteral token whose value is the body with '' read as ', every
\* carriage-return dropped and everything else kept in order.
C1_StringValue ==
    Called =>
        \A k \in 1..Len(src) :
            ClosesAt(TokenStart, k) =>
                /\ ReturnedToken("StringLiteral")
                /\ result.value = Unescape(SubSeq(src, TokenStart + 2, k - 1))

C1_Witness ==
    /\ calls = 1
    /\ \E k \in 1..Len(src) :
           /\ ClosesAt(TokenStart, k)
           /\ {Quote, CR, LF} \subseteq Range(SubSeq(src, TokenStart + 2, k - 1))
    /\ ReturnedToken("StringLiteral")
    /\ Quote \in Range(result.value)

\* C2: an identifier that runs to the end of the input is returned as an
\* Identifier token carrying the accumulated text.
C2_IdentifierAtEnd ==
    (Called /\ AtTokenStart(Letters) /\ RunEnd(TokenStart, IdentChars) = Len(src)) =>
        /\ ReturnedToken("Identifier")
        /\ result.value = SubSeq(src, TokenStart + 1, Len(src))

\* C3: a call that begins at an opening ' which no closing ' matches before
\* the end of the input returns a LexerError, never a token.
C3_Unterminated ==
    (/\ Called
     /\ AtTokenStart({Quote})
     /\ EscapedBody(SubSeq(src, TokenStart + 2, Len(src)))) =>
        result.kind = "err"

C3_Witness ==
    /\ calls = 1
    /\ Len(src) >= 4
    /\ src[1] = Quote
    /\ src[Len(src)] = Quote
    /\ EscapedBody(SubSeq(src, 2, Len(src)))
    /\ result.kind = "err"
    /\ pos = Len(src)

\* C4: on a text of string literals each directly followed by '.', the calls
\* return StringLiteral, Period for each literal in order, then EndOfFile.
C4_LiteralPeriodSequence ==
    \A bs \in SeqsUpTo(LitBodies, MaxLits) :
        src = Concat([i \in 1..Len(bs) |-> LitUnit(bs[i])]) =>
            \A n \in 1..Len(out) :
                /\ out[n].kind = "ok"
                /\ out[n].symbol =
                       IF n > 2 * Len(bs) THEN "EndOfFile"
                       ELSE IF n % 2 = 1 THEN "StringLiteral" ELSE "Period"
                /\ (n <= 2 * Len(bs) /\ n % 2 = 1) =>
                       out[n].value = Unescape(bs[(n + 1) \div 2])

C4_Witness ==
    /\ src = LitUnit(<<"a">>) \o LitUnit(<<"B">>)
    /\ Len(out) = 5
    /\ out[4].symbol = "Period"
    /\ out[5].symbol = "EndOfFile"

\* C5: once a call has returned an EndOfFile token, every later call returns
\* an EndOfFile token too, never an error or another symbol.
C5_EndOfFileSticks ==
    \A i \in 1..Len(out) : \A j \in i..Len(out) :
        (out[i].kind = "ok" /\ out[i].symbol = "EndOfFile") =>
            (out[j].kind = "ok" /\ out[j].symbol = "EndOfFile")

C5_Witness ==
    /\ calls >= 3
    /\ out[1].symbol = "Period"
    /\ out[calls - 1].symbol = "EndOfFile"
    /\ out[calls].symbol = "EndOfFile"

\* C6: on a text made only of space, tab, carriage-return and line-feed (or
\* an empty text) the first call returns EndOfFile with an empty value and
\* has consumed the whole text.
C6_WhitespaceOnly ==
    (calls = 1 /\ Range(src) \subseteq Whitespace) =>
        /\ ReturnedToken("EndOfFile")
        /\ result.value = <<>>
        /\ pos = Len(src)

C6_Witness ==
    /\ calls = 1
    /\ Range(src) = Whitespace
    /\ ReturnedToken("EndOfFile")
    /\ pos = Len(src)

\* C7: a letter-initial run of letters, digits and underscores directly
\* followed by ':' is returned as a Keyword token whose value is the run,
\* the ':' is consumed, and no Keyword value contains ':'.
C7_Keyword ==
    /\ (/\ Called
        /\ AtTokenStart(Letters)
        /\ RunEnd(TokenStart, IdentChars) < Len(src)
        /\ src[RunEnd(TokenStart, IdentChars) + 1] = ":") =>
           /\ ReturnedToken("Keyword")
           /\ result.value = SubSeq(src, TokenStart + 1, RunEnd(TokenStart, IdentChars))
           /\ pos = RunEnd(TokenStart, IdentChars) + 1
    /\ ReturnedToken("Keyword") => ":" \notin Range(result.value)

C7_Witness ==
    /\ ReturnedToken("Keyword")
    /\ Len(result.value) >= 3
    /\ {"1", "_"} \subseteq Range(result.value)
    /\ src[pos] = ":"

\* C8: an identifier not followed by ':' (whether whitespace, the end of the
\* input or another character follows) is returned as an Identifier token
\* whose value is the run of letters, digits and underscores.
C8_IdentifierValue ==
    (/\ Called
     /\ AtTokenStart(Letters)
     /\ (RunEnd(TokenStart, IdentChars) < Len(src) =>
             src[RunEnd(TokenStart, IdentChars) + 1] # ":")) =>
        /\ ReturnedToken("Identifier")
        /\ result.value = SubSeq(src, TokenStart + 1, RunEnd(TokenStart, IdentChars))

\* C9: a call dispatched on a digit consumes the maximal run of digits and
\* returns a Number token whose value is the consumed text.
C9_Number ==
    (Called /\ AtTokenStart(Digits)) =>
        /\ ReturnedToken("Number")
        /\ pos >= RunEnd(TokenStart, Digits)
        /\ result.value = SubSeq(src, TokenStart + 1, pos)

\* C10: a call dispatched on a double quote that has a closing double quote
\* consumes everything up to and including the closing quote, and returns a
\* Comment token or the token after the comment.
C10_Comment ==
    (/\ Called
     /\ AtTokenStart({DQuote})
     /\ \E k \in (TokenStart + 2)..Len(src) : src[k] = DQuote) =>
        LET k == CHOOSE k \in (TokenStart + 2)..Len(src) :
                     /\ src[k] = DQuote
                     /\ \A j \in (TokenStart + 2)..(k - 1) : src[j] # DQuote
        IN /\ pos >= k
           /\ ReturnedToken("Comment") =>
                  (pos = k /\ result.value = SubSeq(src, TokenStart + 2, k - 1))

\* The Symbol each punctuation character stands for.
PunctSymbol ==
    [ch \in {"(", ")", "[", "]", "{", "}", ";", "#", "<", ">", "$", "!"} |->
        CASE ch = "(" -> "LParen"   [] ch = ")" -> "RParen"
          [] ch = "[" -> "LBracket" [] ch = "]" -> "RBracket"
          [] ch = "{" -> "LBrace"   [] ch = "}" -> "RBrace"
          [] ch = ";" -> "Semicolon" [] ch = "#" -> "Hash"
          [] ch = "<" -> "LT"       [] ch = ">" -> "GT"
          [] ch = "$" -> "DollarSign" [] ch = "!" -> "Bang"]

\* C11: each of ( ) [ ] { } ; # < > $ ! met at dispatch is consumed as one
\* character and returned as its own single-character Symbol, the way '.'
\* is returned as Period.
C11_Punctuation ==
    (Called /\ AtTokenStart(DOMAIN PunctSymbol)) =>
        /\ ReturnedToken(PunctSymbol[src[TokenStart + 1]])
        /\ result.value = <<src[TokenStart + 1]>>
        /\ pos = TokenStart + 1

\* C12: an EndOfFile token is returned only when no unconsumed character
\* remains, and every EndOfFile token has an empty value.
C12_EndOfFileOnlyAtEnd ==
    ReturnedToken("EndOfFile") => (pos = Len(src) /\ result.value = <<>>)

\* The n-th result ends the caller's loop: an EndOfFile token or an error.
Terminal(n) == out[n].kind = "err" \/ out[n].symbol = "EndOfFile"

\* C13: a caller that stops at the first EndOfFile token or LexerError stops
\* after finitely many calls (at most one per source character, plus one):
\* the cursor never moves backward and every call that returns a token
\* other than EndOfFile has consumed at least one character.
C13_CallerTerminates ==
    /\ start <= pos
    /\ (result.kind = "ok" /\ result.symbol # "EndOfFile") => start < pos
    /\ (\A n \in 1..(Len(out) - 1) : ~Terminal(n)) => Len(out) <= Len(src) + 1

C13_Witness ==
    /\ Len(src) >= 3
    /\ Len(out) = Len(src) + 1
    /\ \A n \in 1..Len(src) : ~Terminal(n)
    /\ Terminal(Len(out))

\* The characters the dispatch has no arm for.
Unexpected == Alphabet \ (Digits \cup Letters \cup {".", Quote, DQuote} \cup Whitespace)

\* C15: a character at dispatch that is none of digit, letter, '.', single
\* quote, double quote or whitespace is consumed, alone, and the call returns
\* a LexerError; the next call starts right after it.
C15_UnexpectedCharacter ==
    (Called /\ AtTokenStart(Unexpected)) =>
        /\ result.kind = "err"
        /\ result.message = <<"unexpected character ", src[TokenStart + 1]>>
        /\ pos = TokenStart + 1

C15_Witness ==
    /\ calls = 2
    /\ out[1].kind = "err"
    /\ AtTokenStart(Unexpected)
    /\ start = 2
    /\ TokenStart = 3
    /\ result.kind = "err"
    /\ pos = 4

\* Index of the last line-feed among the first p characters, 0 when none.
LastLF(p) ==
    LET lfs == {i \in 1..p : src[i] = LF} IN
    IF lfs = {} THEN 0 ELSE CHOOSE i \in lfs : \A j \in lfs : j <= i

\* Characters consumed after the last consumed line-feed.
SinceLF(p) == (LastLF(p) + 1)..p

\* C14 as stated: the column is 1 plus the number of characters consumed
\* since the last consumed line-feed, carriage-return and tab included.
C14_ColumnCountsEveryCharacter ==
    column = 1 + Cardinality(SinceLF(pos))

\* C14 as amended: the column is 1 plus the number of characters other than
\* carriage-return consumed since the last consumed line-feed; a
\* carriage-return changes neither line nor column.
C14_ColumnSkipsCarriageReturn ==
    column = 1 + Cardinality({i \in SinceLF(pos) : src[i] # CR})

C14_Witness ==
    /\ Called
    /\ LastLF(pos) > 0
    /\ \E i \in SinceLF(pos) : src[i] = CR
    /\ \E i \in SinceLF(pos) : src[i] = TAB
    /\ column = 2

\* C16: during an identifier scan, a next character that is none of
\* whitespace, letter, digit, underscore or ':' makes the call return a
\* LexerError and no token.
C16_IdentifierUnexpectedChar ==
    (/\ Called
     /\ AtTokenStart(Letters)
     /\ RunEnd(TokenStart, IdentChars) < Len(src)
     /\ src[RunEnd(TokenStart, IdentChars) + 1] \notin Whitespace \cup {":"}) =>
        /\ result.kind = "err"
        /\ result.message =
               <<"unexpected char ", src[RunEnd(TokenStart, IdentChars) + 1]>>

C16_Witness ==
    /\ calls = 1
    /\ Len(src) >= 3
    /\ src[1] \in Letters
    /\ RunEnd(0, IdentChars) >= 2
    /\ RunEnd(0, IdentChars) < Len(src)
    /\ src[RunEnd(0, IdentChars) + 1] = "."
    /\ result.kind = "err"

\* Line number after the first p characters: 1 plus the line-feeds consumed.
LineAt(p) == 1 + Cardinality({i \in 1..p : src[i] = LF})

\* C17: an identifier scan that stops at a whitespace character returns
\* Identifier without consuming that character: it is the next unconsumed
\* character, and line and column are still those of the position before it.
C17_WhitespaceLeftUnconsumed ==
    (/\ Called
     /\ AtTokenStart(Letters)
     /\ RunEnd(TokenStart, IdentChars) < Len(src)
     /\ src[RunEnd(TokenStart, IdentChars) + 1] \in Whitespace) =>
        /\ ReturnedToken("Identifier")
        /\ pos = RunEnd(TokenStart, IdentChars)
        /\ src[pos + 1] \in Whitespace
        /\ line = LineAt(RunEnd(TokenStart, IdentChars))
        /\ column = 1 + Cardinality({i \in SinceLF(RunEnd(TokenStart, IdentChars)) :
                                        src[i] # CR})

C17_Witness ==
    /\ calls = 2
    /\ out[1].symbol = "Identifier"
    /\ ReturnedToken("Identifier")
    /\ pos < Len(src)
    /\ src[pos + 1] = LF
    /\ src[start + 1] = LF
    /\ line = 2
    /\ column = 2

\* The cursor as the current state holds it.
Cursor == [pos |-> pos, line |-> line, column |-> column]

\* C18: whitespace skipping consumes exactly the maximal run of space, tab,
\* carriage-return and line-feed at the cursor, after which the next
\* character is not whitespace or the input is at its end; a second skip
\* right after the first changes neither position, line nor column.
C18_SkipWhitespace ==
    LET once == skip_whitespace(Cursor)
        twice == skip_whitespace(once)
    IN /\ once.pos = RunEnd(pos, Whitespace)
       /\ once.pos = Len(src) \/ src[once.pos + 1] \notin Whitespace
       /\ once.line = LineAt(once.pos)
       /\ twice = once

C18_Witness ==
    /\ Called
    /\ pos < Len(src)
    /\ RunEnd(pos, Whitespace) >= pos + 2
    /\ RunEnd(pos, Whitespace) < Len(src)
    /\ skip_whitespace(Cursor).pos = pos + 2
    /\ skip_whitespace(Cursor).line > line
====
